---- MODULE Spec2Model ----
(***************************************************************************)
(* Verification model of the fixed-capacity resource managers:             *)
(*   LRUCache   (lru_cache.hpp)   hash index + recency-ordered list        *)
(*   MemoryPool (memory_pool.hpp) intrusive free list over one arena       *)
(*                                                                         *)
(* SpecCache drives the cache, SpecPool drives the pool; each leaves the   *)
(* other component in its freshly constructed state.                       *)
(***************************************************************************)
EXTENDS Integers, Sequences, FiniteSets, TLC

(* ---------------------------- bounds ----------------------------------- *)
\* keys and values of the callers, largest capacity of a cache
NumKeys == 3
NumVals == 2
MaxCap == 2
\* calls are made while hits_ + misses_ + evictions_ stays within MaxCount
MaxCount == 4

Keys == 1..NumKeys
Values == 1..NumVals
\* std::nullopt of get(), and "no value" in the bookkeeping records
NoVal == 0
\* "no key" in the bookkeeping records
NoKey == 0

(* ---------------------------- state ------------------------------------ *)
VARIABLES
    capacity_,     \* LRUCache::capacity_
    cache_list_,   \* LRUCache::cache_list_, head (most recent) first
    cache_map_,    \* LRUCache::cache_map_, key -> list node
    hits_,         \* LRUCache::hits_
    misses_,       \* LRUCache::misses_
    evictions_,    \* LRUCache::evictions_
    touchOrder,    \* history: keys touched since they last left the cache,
                   \*          by their latest touch, latest first
    lastPut,       \* history: key -> value of its latest put since it last
                   \*          left the cache
    lastC,         \* history: the latest cache call, its result and victim
    scen,          \* the caller: -1 any caller, n >= 0 test_lru_cache after n calls
    memory_start_, \* MemoryPool::memory_start_
    block_size_,   \* MemoryPool::block_size_
    block_count_,  \* MemoryPool::block_count_
    free_list_,    \* MemoryPool::free_list_
    allocations_,  \* MemoryPool::allocations_
    deallocations_,\* MemoryPool::deallocations_
    current_usage_,\* MemoryPool::current_usage_
    mem,           \* the arena: address -> the word stored there
    outstanding,   \* history: addresses returned by allocate and not yet
                   \*          given back to deallocate
    badFrees,      \* history: number of deallocate calls given an address
                   \*          inside the arena that was not outstanding
    wildReads,     \* history: number of allocate calls that read block->next
                   \*          from a word that holds no link
    lastP,         \* history: the latest pool call, argument and result
    ptr_capacity_, \* LRUCachePtr::capacity_
    ptr_cache_list_, \* LRUCachePtr::cache_list_, head (most recent) first
    ptr_cache_map_,\* LRUCachePtr::cache_map_, key -> list node
    deleter_,      \* LRUCachePtr::deleter_: TRUE when a callback is set
    alive,         \* the LRUCachePtr object exists: its destructor has not run
    released,      \* history: pointer -> number of deleter_ calls on it
    putCount,      \* history: pointer -> number of put calls that stored it,
                   \*          counted up to 2
    lastL,         \* history: the latest LRUCachePtr call, its result and
                   \*          the pointers deleter_ was called on, in order
    threads,       \* ThreadPool::ThreadPool(threads): the number of workers
    workers,       \* ThreadPool::workers: worker -> position in its loop
    tasks,         \* ThreadPool::tasks, front first
    queueMutex,    \* ThreadPool::queueMutex: the thread that holds it
    condition,     \* ThreadPool::condition: the workers blocked in wait
    stop,          \* ThreadPool::stop
    task,          \* worker -> its local variable task
    mainPc,        \* position of the thread that owns the pool
    enqueued,      \* number of tasks pushed; tasks are numbered in push order
    joined,        \* number of workers the destructor has joined
    executed,      \* history: task -> number of times it was run
    removed        \* history: the tasks popped from the queue, in pop order

cacheVars == <<capacity_, cache_list_, cache_map_, hits_, misses_, evictions_>>
cacheHist == <<touchOrder, lastPut, lastC, scen>>
poolVars == <<memory_start_, block_size_, block_count_, free_list_,
              allocations_, deallocations_, current_usage_, mem>>
poolHist == <<outstanding, badFrees, wildReads, lastP>>
ptrVars == <<ptr_capacity_, ptr_cache_list_, ptr_cache_map_, deleter_, alive>>
ptrHist == <<released, putCount, lastL>>
threadVars == <<threads, workers, tasks, queueMutex, condition, stop, task,
                mainPc, enqueued, joined>>
threadHist == <<executed, removed>>
vars == <<cacheVars, cacheHist, poolVars, poolHist, ptrVars, ptrHist,
          threadVars, threadHist>>

(* ------------------------ std::list helpers ---------------------------- *)
\* A list node is the pair (key, value).  The key of a node never changes
\* after emplace_front, so an iterator is modelled by the key stored in the
\* node it refers to.
CacheItem(k, v) == [key |-> k, val |-> v]

ListKeys(list) == {list[i].key : i \in 1..Len(list)}

\* position of the node an iterator refers to, 0 when it dangles
NodePos(list, it) ==
    IF \E i \in 1..Len(list) : list[i].key = it
    THEN CHOOSE i \in 1..Len(list) : list[i].key = it
    ELSE 0

\* it->second through a list iterator
NodeValue(list, it) ==
    IF NodePos(list, it) = 0 THEN NoVal ELSE list[NodePos(list, it)].val

SetNodeValueNoop(list, it, v) == list

\* it->second = value through a list iterator
SetNodeValue(list, it, v) ==
    [i \in 1..Len(list) |-> IF i = NodePos(list, it)
                            THEN CacheItem(list[i].key, v)
                            ELSE list[i]]

SpliceKeep(list, it) == list

\* cache_list_.splice(cache_list_.begin(), cache_list_, it)
SpliceToFront(list, it) ==
    LET p == NodePos(list, it) IN
    IF p = 0 THEN list
    ELSE <<list[p]>> \o SubSeq(list, 1, p - 1) \o SubSeq(list, p + 1, Len(list))

\* cache_list_.emplace_front(key, value)
EmplaceFront(list, k, v) == <<CacheItem(k, v)>> \o list

\* cache_list_.pop_back()
PopBack(list) == SubSeq(list, 1, Len(list) - 1)

(* --------------------- std::unordered_map helpers ---------------------- *)
MapEraseKeep(map, k) == map

\* cache_map_.erase(key)
MapErase(map, k) == [x \in (DOMAIN map) \ {k} |-> map[x]]

\* cache_map_[key] = it
MapSet(map, k, it) == [x \in (DOMAIN map) \cup {k} |-> IF x = k THEN it ELSE map[x]]

EmptyMap == [x \in {} |-> NoKey]

(* --------------------------- LRUCache ---------------------------------- *)
EvictHead(list, map, ev) ==
    IF list = <<>> THEN [list |-> list, map |-> map, ev |-> ev, victim |-> NoKey]
    ELSE [list |-> Tail(list), map |-> MapErase(map, list[1].key),
          ev |-> ev + 1, victim |-> list[1].key]

\* LRUCache::evict_lru on (cache_list_, cache_map_, evictions_); victim is
\* the key it removed
evict_lru(list, map, ev) ==
    IF list = <<>> THEN [list |-> list, map |-> map, ev |-> ev, victim |-> NoKey]
    ELSE LET key == list[Len(list)].key IN
         [list |-> PopBack(list), map |-> MapErase(map, key),
          ev |-> ev + 1, victim |-> key]

NeverFull(list, cap) == FALSE

\* the test of put: cache_list_.size() >= capacity_
AtCapacity(list, cap) == Len(list) >= cap

\* history bookkeeping: k was touched now
Touch(order, k) == <<k>> \o SelectSeq(order, LAMBDA x : x # k)

\* history bookkeeping: k left the cache (k = NoKey: nothing left)
Forget(order, k) == SelectSeq(order, LAMBDA x : x # k)

ForgetPut(puts, k) == [x \in DOMAIN puts |-> IF x = k THEN NoVal ELSE puts[x]]

\* The cache has one of two callers.  scen = -1: any caller, with keys of
\* Keys and any capacity up to MaxCap.  scen >= 0: test_lru_cache, which has
\* made the first scen calls of LruScript on its cache of TestCapacity.

\* the capacity of the cache of test_lru_cache
TestCapacity == 3

\* the calls of test_lru_cache: put 1, 2, 3, get 2, put 4, get 1; then a
\* get of the key put last
LruScript == << <<"put", 1>>, <<"put", 2>>, <<"put", 3>>, <<"get", 2>>,
                <<"put", 4>>, <<"get", 1>>, <<"get", 4>> >>

ScriptKeys == {LruScript[i][2] : i \in 1..Len(LruScript)}

AllKeys == Keys \cup ScriptKeys

\* the caller makes the call op(k) next
Calls(op, k) ==
    IF scen >= 0
    THEN scen < Len(LruScript) /\ LruScript[scen + 1] = <<op, k>>
    ELSE k \in Keys

\* the position of the caller after a call
ScenStep == IF scen >= 0 THEN scen + 1 ELSE -1

\* LRUCache::LRUCache, for a capacity that passes the zero check
CacheInit ==
    /\ \/ scen = -1 /\ capacity_ \in 1..MaxCap
       \/ scen = 0 /\ capacity_ = TestCapacity
    /\ cache_list_ = <<>>
    /\ cache_map_ = EmptyMap
    /\ hits_ = 0
    /\ misses_ = 0
    /\ evictions_ = 0
    /\ touchOrder = <<>>
    /\ lastPut = [k \in AllKeys |-> NoVal]
    /\ lastC = [op |-> "new", key |-> NoKey, val |-> NoVal, ret |-> NoVal,
                found |-> FALSE, victim |-> NoKey]

MissCountedAsHit(h, m) == [hits |-> h + 1, misses |-> m, ret |-> NoVal]

\* LRUCache::get when find(key) == end(): the counters and the result
get_miss(h, m) == [hits |-> h, misses |-> m + 1, ret |-> NoVal]

\* LRUCache::get when find(key) succeeds: the list, hits_ and the result
get_hit(list, map, h, key) ==
    LET it == map[key]
        spliced == SpliceToFront(list, it)
    IN [list |-> spliced, hits |-> h + 1, ret |-> NodeValue(spliced, it)]

PutUpdateEvicts(list, map, ev, cap, key, value) ==
    LET it == map[key]
        e == IF AtCapacity(list, cap) /\ list[Len(list)].key # it
             THEN evict_lru(list, map, ev)
             ELSE [list |-> list, map |-> map, ev |-> ev, victim |-> NoKey]
    IN [list |-> SpliceToFront(SetNodeValue(e.list, it, value), it),
        map |-> e.map, ev |-> e.ev, victim |-> e.victim]

\* LRUCache::put when find(key) succeeds
put_update(list, map, ev, cap, key, value) ==
    LET it == map[key]
    IN [list |-> SpliceToFront(SetNodeValue(list, it, value), it),
        map |-> map, ev |-> ev, victim |-> NoKey]

\* LRUCache::put when find(key) == end()
put_new(list, map, ev, cap, key, value) ==
    LET e == IF AtCapacity(list, cap)
             THEN evict_lru(list, map, ev)
             ELSE [list |-> list, map |-> map, ev |-> ev, victim |-> NoKey]
        inserted == EmplaceFront(e.list, key, value)
    IN [list |-> inserted,
        map |-> MapSet(e.map, key, inserted[1].key),
        ev |-> e.ev, victim |-> e.victim]

\* LRUCache::get, miss
GetMiss(key) ==
    /\ Calls("get", key)
    /\ key \notin DOMAIN cache_map_
    /\ \E r \in {get_miss(hits_, misses_)} :
          /\ r.hits + r.misses + evictions_ <= MaxCount
          /\ hits_' = r.hits
          /\ misses_' = r.misses
          /\ lastC' = [op |-> "get", key |-> key, val |-> NoVal,
                       ret |-> r.ret, found |-> FALSE, victim |-> NoKey]
    /\ scen' = ScenStep
    /\ UNCHANGED <<capacity_, cache_list_, cache_map_, evictions_,
                   touchOrder, lastPut>>
    /\ UNCHANGED <<poolVars, poolHist, ptrVars, ptrHist, threadVars, threadHist>>

\* LRUCache::get, hit
GetHit(key) ==
    /\ Calls("get", key)
    /\ key \in DOMAIN cache_map_
    /\ \E r \in {get_hit(cache_list_, cache_map_, hits_, key)} :
          /\ r.hits + misses_ + evictions_ <= MaxCount
          /\ hits_' = r.hits
          /\ cache_list_' = r.list
          /\ lastC' = [op |-> "get", key |-> key, val |-> NoVal,
                       ret |-> r.ret, found |-> TRUE, victim |-> NoKey]
    /\ touchOrder' = Touch(touchOrder, key)
    /\ scen' = ScenStep
    /\ UNCHANGED <<capacity_, cache_map_, misses_, evictions_, lastPut>>
    /\ UNCHANGED <<poolVars, poolHist, ptrVars, ptrHist, threadVars, threadHist>>

\* LRUCache::put, existing key
PutUpdate(key, value) ==
    /\ Calls("put", key)
    /\ key \in DOMAIN cache_map_
    /\ \E r \in {put_update(cache_list_, cache_map_, evictions_, capacity_,
                            key, value)} :
          /\ hits_ + misses_ + r.ev <= MaxCount
          /\ cache_list_' = r.list
          /\ cache_map_' = r.map
          /\ evictions_' = r.ev
          /\ lastC' = [op |-> "put", key |-> key, val |-> value,
                       ret |-> NoVal, found |-> TRUE, victim |-> r.victim]
          /\ touchOrder' = Touch(Forget(touchOrder, r.victim), key)
          /\ lastPut' = [ForgetPut(lastPut, r.victim) EXCEPT ![key] = value]
    /\ scen' = ScenStep
    /\ UNCHANGED <<capacity_, hits_, misses_>>
    /\ UNCHANGED <<poolVars, poolHist, ptrVars, ptrHist, threadVars, threadHist>>

\* LRUCache::put, new key
PutNew(key, value) ==
    /\ Calls("put", key)
    /\ key \notin DOMAIN cache_map_
    /\ \E r \in {put_new(cache_list_, cache_map_, evictions_, capacity_,
                         key, value)} :
          /\ hits_ + misses_ + r.ev <= MaxCount
          /\ cache_list_' = r.list
          /\ cache_map_' = r.map
          /\ evictions_' = r.ev
          /\ lastC' = [op |-> "put", key |-> key, val |-> value,
                       ret |-> NoVal, found |-> FALSE, victim |-> r.victim]
          /\ touchOrder' = Touch(Forget(touchOrder, r.victim), key)
          /\ lastPut' = [ForgetPut(lastPut, r.victim) EXCEPT ![key] = value]
    /\ scen' = ScenStep
    /\ UNCHANGED <<capacity_, hits_, misses_>>
    /\ UNCHANGED <<poolVars, poolHist, ptrVars, ptrHist, threadVars, threadHist>>

ClearKeepsIndex ==
    /\ scen = -1
    /\ cache_list_' = <<>>
    /\ cache_map_' = cache_map_
    /\ lastC' = [op |-> "clear", key |-> NoKey, val |-> NoVal, ret |-> NoVal,
                 found |-> FALSE, victim |-> NoKey]
    /\ touchOrder' = <<>>
    /\ lastPut' = [k \in AllKeys |-> NoVal]
    /\ scen' = scen
    /\ UNCHANGED <<capacity_, hits_, misses_, evictions_>>
    /\ UNCHANGED <<poolVars, poolHist, ptrVars, ptrHist, threadVars, threadHist>>

\* LRUCache::clear
Clear ==
    /\ scen = -1
    /\ cache_list_' = <<>>
    /\ cache_map_' = EmptyMap
    /\ lastC' = [op |-> "clear", key |-> NoKey, val |-> NoVal, ret |-> NoVal,
                 found |-> FALSE, victim |-> NoKey]
    /\ touchOrder' = <<>>
    /\ lastPut' = [k \in AllKeys |-> NoVal]
    /\ scen' = scen
    /\ UNCHANGED <<capacity_, hits_, misses_, evictions_>>
    /\ UNCHANGED <<poolVars, poolHist, ptrVars, ptrHist, threadVars, threadHist>>

ResetStatsKeepsEvictions ==
    /\ scen = -1
    /\ hits_' = 0
    /\ misses_' = 0
    /\ evictions_' = evictions_
    /\ lastC' = [op |-> "reset", key |-> NoKey, val |-> NoVal, ret |-> NoVal,
                 found |-> FALSE, victim |-> NoKey]
    /\ scen' = scen
    /\ UNCHANGED <<capacity_, cache_list_, cache_map_, touchOrder, lastPut>>
    /\ UNCHANGED <<poolVars, poolHist, ptrVars, ptrHist, threadVars, threadHist>>

\* LRUCache::reset_stats
ResetStats ==
    /\ scen = -1
    /\ hits_' = 0
    /\ misses_' = 0
    /\ evictions_' = 0
    /\ lastC' = [op |-> "reset", key |-> NoKey, val |-> NoVal, ret |-> NoVal,
                 found |-> FALSE, victim |-> NoKey]
    /\ scen' = scen
    /\ UNCHANGED <<capacity_, cache_list_, cache_map_, touchOrder, lastPut>>
    /\ UNCHANGED <<poolVars, poolHist, ptrVars, ptrHist, threadVars, threadHist>>

\* A double is modelled by the exact quotient that it rounds, kept as a
\* fraction in lowest terms.
RECURSIVE Gcd(_, _)
Gcd(a, b) == IF b = 0 THEN a ELSE Gcd(b, a % b)

\* the quotient n / d, d > 0
Quotient(n, d) == [num |-> n \div Gcd(n, d), den |-> d \div Gcd(n, d)]

\* the double 0.0
Zero == [num |-> 0, den |-> 1]

HitRateTruncated(h, m) ==
    IF h + m = 0 THEN Zero ELSE [num |-> (h * 100) \div (h + m), den |-> 1]

\* LRUCache::hit_rate on (hits_, misses_)
hit_rate(h, m) == IF h + m = 0 THEN Zero ELSE Quotient(h * 100, h + m)

\* what a call of hit_rate() returns in the current state; the method is
\* const and changes nothing
HitRate == hit_rate(hits_, misses_)

CacheNext ==
    \/ \E k \in AllKeys : GetMiss(k)
    \/ \E k \in AllKeys : GetHit(k)
    \/ \E k \in AllKeys, v \in Values : PutUpdate(k, v)
    \/ \E k \in AllKeys, v \in Values : PutNew(k, v)
    \/ Clear
    \/ ResetStats


(* --------------------------- MemoryPool -------------------------------- *)
\* Addresses are counted in units of sizeof(FreeBlock), the size of one link
\* word; the model covers the link-aligned addresses.
LinkSize == 1
\* nullptr
Null == 0
\* content of a word the allocator has not written: uninitialised storage of
\* operator new, or data the caller stored in a block it holds
Junk == -1
\* size_t is modelled SizeBits wide; arithmetic on it wraps at 2^SizeBits
SizeBits == 30
SizeModulus == 2 ^ SizeBits

\* the address operator new returned for the arena
ArenaBase == 2
\* largest block size and block count a pool is constructed with
MaxBlockSize == 2
MaxBlocks == 2
\* calls are made while allocations_ and deallocations_ stay within these
MaxAllocs == 2
MaxFrees == 2
\* largest number of deallocate calls given an address inside the arena that
\* is not outstanding, and of allocate calls that read a word holding no link
MaxBadFrees == 1
MaxWildReads == 1

\* every address of the model: nullptr up to the end of the largest arena
AllPtrs == 0..(ArenaBase + MaxBlockSize * MaxBlocks)

\* the addresses a caller may pass and a wild read may yield: nullptr, the
\* address below the arena, the arena, the address at its end
PtrValues ==
    {Null} \cup ((memory_start_ - 1)..(memory_start_ + block_size_ * block_count_))

Arena(start, bs, cnt) == start..(start + bs * cnt - 1)

\* the loop body of init_free_list, iterations i..count-1
RECURSIVE LinkBlocks(_, _, _, _, _)
LinkBlocks(i, count, bs, current, st) ==
    IF i >= count THEN st
    ELSE LinkBlocks(i + 1, count, bs, current - bs,
                    [mem |-> [st.mem EXCEPT ![current] = st.free_list],
                     free_list |-> current])

InitAscending(start, bs, cnt) ==
    [mem |-> [a \in Arena(start, bs, cnt) |->
                 IF (a - start) % bs # 0 THEN Junk
                 ELSE IF a = start THEN Null ELSE a - bs],
     free_list |-> IF cnt = 0 THEN Null ELSE start + (cnt - 1) * bs]

\* MemoryPool::init_free_list on the fresh storage of operator new
init_free_list(start, bs, cnt) ==
    LinkBlocks(0, cnt, bs, start + (cnt - 1) * bs,
               [mem |-> [a \in Arena(start, bs, cnt) |-> Junk],
                free_list |-> Null])

\* MemoryPool::MemoryPool, operator new succeeding
PoolConstruct(size, count) ==
    LET bs == IF size < LinkSize THEN LinkSize ELSE size
        fl == init_free_list(ArenaBase, bs, count)
    IN /\ memory_start_ = ArenaBase
       /\ block_size_ = bs
       /\ block_count_ = count
       /\ free_list_ = fl.free_list
       /\ mem = fl.mem
       /\ allocations_ = 0
       /\ deallocations_ = 0
       /\ current_usage_ = 0
       /\ outstanding = {}
       /\ badFrees = 0
       /\ wildReads = 0
       /\ lastP = [op |-> "new", arg |-> Null, ret |-> Null]

PoolInit == \E size \in 0..MaxBlockSize, count \in 0..MaxBlocks :
                PoolConstruct(size, count)

PoolIdle == PoolConstruct(LinkSize, 1)

IsFromPoolFromBelow(ptr) ==
    /\ ptr >= memory_start_ - 1
    /\ ptr < memory_start_ + block_size_ * block_count_

IsFromPoolUpToEnd(ptr) ==
    /\ ptr >= memory_start_
    /\ ptr <= memory_start_ + block_size_ * block_count_

\* MemoryPool::is_from_pool
is_from_pool(ptr) ==
    /\ ptr >= memory_start_
    /\ ptr < memory_start_ + block_size_ * block_count_

NeverExhausted(fl) == FALSE

\* the test of allocate: !free_list_
Exhausted(fl) == fl = Null

\* the word at address block is inside the arena and holds a link
HoldsLink(m, block) == block \in DOMAIN m /\ m[block] # Junk

ReadSelf(m, block) == {block}

\* the values a read of block->next may yield: the word stored there, or
\* anything when the word is not a link the allocator wrote or the address
\* lies outside the arena
ReadNext(m, block) == IF HoldsLink(m, block) THEN {m[block]} ELSE PtrValues

KeepLink(m, block, head) == m

\* block->next = free_list_
WriteNext(m, block, head) ==
    IF block \in DOMAIN m THEN [m EXCEPT ![block] = head] ELSE m

\* ++current_usage_ on size_t
UsageInc(u) == (u + 1) % SizeModulus

UsageKeep(u) == u

\* --current_usage_ on size_t
UsageDec(u) == (u + SizeModulus - 1) % SizeModulus

\* MemoryPool::allocate, pool exhausted
AllocateFail ==
    /\ Exhausted(free_list_)
    /\ lastP' = [op |-> "allocate", arg |-> Null, ret |-> Null]
    /\ UNCHANGED <<poolVars, outstanding, badFrees, wildReads>>
    /\ UNCHANGED <<cacheVars, cacheHist, ptrVars, ptrHist, threadVars, threadHist>>

\* MemoryPool::allocate, a block is handed out
AllocateOk ==
    /\ ~Exhausted(free_list_)
    /\ allocations_ < MaxAllocs
    /\ \E nxt \in ReadNext(mem, free_list_) : free_list_' = nxt
    /\ wildReads' = IF HoldsLink(mem, free_list_) THEN wildReads
                    ELSE wildReads + 1
    /\ wildReads' <= MaxWildReads
    /\ allocations_' = allocations_ + 1
    /\ current_usage_' = UsageInc(current_usage_)
    /\ outstanding' = outstanding \cup {free_list_}
    /\ lastP' = [op |-> "allocate", arg |-> Null, ret |-> free_list_]
    /\ UNCHANGED <<memory_start_, block_size_, block_count_, deallocations_,
                   mem, badFrees>>
    /\ UNCHANGED <<cacheVars, cacheHist, ptrVars, ptrHist, threadVars, threadHist>>

\* history bookkeeping: the argument lies inside the arena and is not
\* outstanding (a double free, a block never handed out, or no block start)
BadFree(ptr) == ptr \in DOMAIN mem /\ ptr \notin outstanding

\* MemoryPool::deallocate(nullptr)
DeallocateNull ==
    /\ lastP' = [op |-> "deallocate", arg |-> Null, ret |-> Null]
    /\ UNCHANGED <<poolVars, outstanding, badFrees, wildReads>>
    /\ UNCHANGED <<cacheVars, cacheHist, ptrVars, ptrHist, threadVars, threadHist>>

\* MemoryPool::deallocate, pointer rejected by is_from_pool
DeallocateForeign(ptr) ==
    /\ ptr \in PtrValues
    /\ ptr # Null
    /\ ~is_from_pool(ptr)
    /\ lastP' = [op |-> "deallocate", arg |-> ptr, ret |-> Null]
    /\ UNCHANGED <<poolVars, outstanding, badFrees, wildReads>>
    /\ UNCHANGED <<cacheVars, cacheHist, ptrVars, ptrHist, threadVars, threadHist>>

\* MemoryPool::deallocate, pointer accepted
DeallocateOk(ptr) ==
    /\ ptr \in PtrValues
    /\ ptr # Null
    /\ is_from_pool(ptr)
    /\ deallocations_ < MaxFrees
    /\ BadFree(ptr) => badFrees < MaxBadFrees
    /\ mem' = WriteNext(mem, ptr, free_list_)
    /\ free_list_' = ptr
    /\ deallocations_' = deallocations_ + 1
    /\ current_usage_' = UsageDec(current_usage_)
    /\ outstanding' = outstanding \ {ptr}
    /\ badFrees' = IF BadFree(ptr) THEN badFrees + 1 ELSE badFrees
    /\ lastP' = [op |-> "deallocate", arg |-> ptr, ret |-> Null]
    /\ UNCHANGED <<memory_start_, block_size_, block_count_, allocations_,
                   wildReads>>
    /\ UNCHANGED <<cacheVars, cacheHist, ptrVars, ptrHist, threadVars, threadHist>>

\* the caller stores data in a block it holds (placement new in
\* test_memory_pool and worker_thread)
CallerWrite(ptr) ==
    /\ ptr \in outstanding
    /\ mem' = [a \in DOMAIN mem |->
                  IF a >= ptr /\ a < ptr + block_size_ THEN Junk ELSE mem[a]]
    /\ lastP' = [op |-> "write", arg |-> ptr, ret |-> Null]
    /\ UNCHANGED <<memory_start_, block_size_, block_count_, free_list_,
                   allocations_, deallocations_, current_usage_,
                   outstanding, badFrees, wildReads>>
    /\ UNCHANGED <<cacheVars, cacheHist, ptrVars, ptrHist, threadVars, threadHist>>

PoolNext ==
    \/ AllocateFail
    \/ AllocateOk
    \/ DeallocateNull
    \/ \E p \in AllPtrs : DeallocateForeign(p)
    \/ \E p \in AllPtrs : DeallocateOk(p)
    \/ \E p \in AllPtrs : CallerWrite(p)

(* --------------------------- LRUCachePtr ------------------------------- *)
\* keys, pointers and largest capacity of the callers of an LRUCachePtr
NumPtrKeys == 3
NumPtrs == 2
MaxPtrCap == 2
\* calls are made while deleter_ has run at most MaxReleases times
MaxReleases == 2

PtrKeys == 1..NumPtrKeys
\* the Value* a caller stores; get returns nullptr for an absent key
Pointers == 1..NumPtrs

\* if (deleter_) deleter_(p): the calls made so far, extended by this one
Invoke(del, calls, p) == IF del THEN Append(calls, p) ELSE calls

\* history bookkeeping: the number of calls of deleter_ on each pointer
Count(calls, p) == Cardinality({i \in 1..Len(calls) : calls[i] = p})

Released(rel, calls) == [p \in DOMAIN rel |-> rel[p] + Count(calls, p)]

\* history bookkeeping: pointer p was passed to put once more
CountPut(cnt, p) == [cnt EXCEPT ![p] = IF @ < 2 THEN @ + 1 ELSE 2]

TotalReleased(rel) ==
    LET RECURSIVE Sum(_)
        Sum(S) == IF S = {} THEN 0
                  ELSE LET p == CHOOSE x \in S : TRUE
                       IN rel[p] + Sum(S \ {p})
    IN Sum(DOMAIN rel)

\* LRUCachePtr::LRUCachePtr, for a capacity that passes the zero check
PtrConstruct(capacity, del) ==
    /\ ptr_capacity_ = capacity
    /\ deleter_ = del
    /\ ptr_cache_list_ = <<>>
    /\ ptr_cache_map_ = EmptyMap
    /\ alive = TRUE
    /\ released = [p \in Pointers |-> 0]
    /\ putCount = [p \in Pointers |-> 0]
    /\ lastL = [op |-> "new", key |-> NoKey, val |-> Null, ret |-> Null,
                found |-> FALSE, calls |-> <<>>]

PtrInit == \E capacity \in 1..MaxPtrCap, del \in BOOLEAN :
               PtrConstruct(capacity, del)

PtrIdle == PtrConstruct(1, FALSE)

\* LRUCachePtr::get when find(key) succeeds: the list and the result
ptr_get_hit(list, map, key) ==
    LET it == map[key]
        spliced == SpliceToFront(list, it)
    IN [list |-> spliced, ret |-> NodeValue(spliced, it)]

PtrPutStoresFirst(list, map, del, key, value) ==
    LET it == map[key]
        stored == SetNodeValue(list, it, value)
    IN [list |-> SpliceToFront(stored, it), map |-> map,
        calls |-> Invoke(del, <<>>, NodeValue(stored, it))]

PtrPutKeepsOld(list, map, del, key, value) ==
    LET it == map[key]
    IN [list |-> SpliceToFront(list, it), map |-> map,
        calls |-> Invoke(del, <<>>, NodeValue(list, it))]

\* LRUCachePtr::put when find(key) succeeds
ptr_put_update(list, map, del, key, value) ==
    LET it == map[key]
        calls == Invoke(del, <<>>, NodeValue(list, it))
        stored == SetNodeValue(list, it, value)
    IN [list |-> SpliceToFront(stored, it), map |-> map, calls |-> calls]

\* LRUCachePtr::put when find(key) == end()
ptr_put_new(list, map, del, cap, key, value) ==
    LET full == AtCapacity(list, cap)
        calls == IF full THEN Invoke(del, <<>>, list[Len(list)].val) ELSE <<>>
        kept == IF full THEN PopBack(list) ELSE list
        index == IF full THEN MapErase(map, list[Len(list)].key) ELSE map
        inserted == EmplaceFront(kept, key, value)
    IN [list |-> inserted, map |-> MapSet(index, key, inserted[1].key),
        calls |-> calls]

RECURSIVE ReleaseFrom(_, _, _, _)
\* the loop of ~LRUCachePtr over cache_list_, entries i..size
ReleaseFrom(i, list, del, calls) ==
    IF i > Len(list) THEN calls
    ELSE ReleaseFrom(i + 1, list, del, Invoke(del, calls, list[i].val))

\* LRUCachePtr::~LRUCachePtr: the calls of deleter_ it makes
ptr_destroy(list, del) == IF del THEN ReleaseFrom(1, list, del, <<>>) ELSE <<>>

\* LRUCachePtr::get, miss
PtrGetMiss(key) ==
    /\ alive
    /\ key \notin DOMAIN ptr_cache_map_
    /\ lastL' = [op |-> "get", key |-> key, val |-> Null, ret |-> Null,
                 found |-> FALSE, calls |-> <<>>]
    /\ UNCHANGED <<ptrVars, released, putCount>>
    /\ UNCHANGED <<cacheVars, cacheHist, poolVars, poolHist, threadVars,
                   threadHist>>

\* LRUCachePtr::get, hit
PtrGetHit(key) ==
    /\ alive
    /\ key \in DOMAIN ptr_cache_map_
    /\ \E r \in {ptr_get_hit(ptr_cache_list_, ptr_cache_map_, key)} :
          /\ ptr_cache_list_' = r.list
          /\ lastL' = [op |-> "get", key |-> key, val |-> Null, ret |-> r.ret,
                       found |-> TRUE, calls |-> <<>>]
    /\ UNCHANGED <<ptr_capacity_, ptr_cache_map_, deleter_, alive, released,
                   putCount>>
    /\ UNCHANGED <<cacheVars, cacheHist, poolVars, poolHist, threadVars,
                   threadHist>>

\* LRUCachePtr::put, existing key
PtrPutUpdate(key, value) ==
    /\ alive
    /\ key \in DOMAIN ptr_cache_map_
    /\ \E r \in {ptr_put_update(ptr_cache_list_, ptr_cache_map_, deleter_,
                                key, value)} :
          /\ ptr_cache_list_' = r.list
          /\ ptr_cache_map_' = r.map
          /\ released' = Released(released, r.calls)
          /\ putCount' = CountPut(putCount, value)
          /\ lastL' = [op |-> "put", key |-> key, val |-> value, ret |-> Null,
                       found |-> TRUE, calls |-> r.calls]
    /\ TotalReleased(released') <= MaxReleases
    /\ UNCHANGED <<ptr_capacity_, deleter_, alive>>
    /\ UNCHANGED <<cacheVars, cacheHist, poolVars, poolHist, threadVars,
                   threadHist>>

\* LRUCachePtr::put, new key
PtrPutNew(key, value) ==
    /\ alive
    /\ key \notin DOMAIN ptr_cache_map_
    /\ \E r \in {ptr_put_new(ptr_cache_list_, ptr_cache_map_, deleter_,
                             ptr_capacity_, key, value)} :
          /\ ptr_cache_list_' = r.list
          /\ ptr_cache_map_' = r.map
          /\ released' = Released(released, r.calls)
          /\ putCount' = CountPut(putCount, value)
          /\ lastL' = [op |-> "put", key |-> key, val |-> value, ret |-> Null,
                       found |-> FALSE, calls |-> r.calls]
    /\ TotalReleased(released') <= MaxReleases
    /\ UNCHANGED <<ptr_capacity_, deleter_, alive>>
    /\ UNCHANGED <<cacheVars, cacheHist, poolVars, poolHist, threadVars,
                   threadHist>>

\* LRUCachePtr::~LRUCachePtr, followed by the destruction of the members
PtrDestroy ==
    /\ alive
    /\ \E calls \in {ptr_destroy(ptr_cache_list_, deleter_)} :
          /\ released' = Released(released, calls)
          /\ putCount' = putCount
          /\ lastL' = [op |-> "destroy", key |-> NoKey, val |-> Null,
                       ret |-> Null, found |-> FALSE, calls |-> calls]
    /\ alive' = FALSE
    /\ ptr_cache_list_' = <<>>
    /\ ptr_cache_map_' = EmptyMap
    /\ UNCHANGED <<ptr_capacity_, deleter_>>
    /\ UNCHANGED <<cacheVars, cacheHist, poolVars, poolHist, threadVars,
                   threadHist>>

PtrNext ==
    \/ \E k \in PtrKeys : PtrGetMiss(k)
    \/ \E k \in PtrKeys : PtrGetHit(k)
    \/ \E k \in PtrKeys, v \in Pointers : PtrPutUpdate(k, v)
    \/ \E k \in PtrKeys, v \in Pointers : PtrPutNew(k, v)
    \/ PtrDestroy

(* ---------------------------- ThreadPool -------------------------------- *)
\* largest number of workers of a pool, and number of tasks its owner enqueues
MaxWorkers == 2
MaxTasks == 2

\* the thread that constructs the pool, enqueues and destroys it
MainThread == 0
\* queueMutex held by no thread
Unlocked == -1
\* the local variable task of a worker that holds no task
NoTask == 0

Workers == 1..threads

\* the predicate of condition.wait: stop || !tasks.empty()
WaitPredicate(s, q) == s \/ q # <<>>

ExitOnStop(s, q) == s

\* the test of the worker after wait: stop && tasks.empty()
ShouldExit(s, q) == s /\ q = <<>>

TakeNoPop(q) == [task |-> Head(q), tasks |-> q]

\* task = std::move(tasks.front()); tasks.pop()
TakeFront(q) == [task |-> Head(q), tasks |-> Tail(q)]

\* ThreadPool::ThreadPool(n): the workers are started and stand before their
\* first lock
ThreadConstruct(n) ==
    /\ threads = n
    /\ workers = [w \in 1..n |-> "lock"]
    /\ tasks = <<>>
    /\ queueMutex = Unlocked
    /\ condition = {}
    /\ stop = FALSE
    /\ task = [w \in 1..n |-> NoTask]
    /\ mainPc = "idle"
    /\ enqueued = 0
    /\ joined = 0
    /\ executed = [t \in 1..MaxTasks |-> 0]
    /\ removed = <<>>

ThreadInit == \E n \in 0..MaxWorkers : ThreadConstruct(n)

ThreadIdle == ThreadConstruct(0)

\* worker: std::unique_lock<std::mutex> lock(queueMutex)
WorkerLock(w) ==
    /\ w \in Workers
    /\ workers[w] = "lock"
    /\ queueMutex = Unlocked
    /\ queueMutex' = w
    /\ workers' = [workers EXCEPT ![w] = "check"]
    /\ UNCHANGED <<threads, tasks, condition, stop, task, mainPc, enqueued,
                   joined, executed, removed>>
    /\ UNCHANGED <<cacheVars, cacheHist, poolVars, poolHist, ptrVars, ptrHist>>

\* worker: condition.wait finds its predicate false, releases the mutex and
\* blocks
WorkerWait(w) ==
    /\ w \in Workers
    /\ workers[w] = "check"
    /\ ~WaitPredicate(stop, tasks)
    /\ queueMutex' = Unlocked
    /\ condition' = condition \cup {w}
    /\ workers' = [workers EXCEPT ![w] = "wait"]
    /\ UNCHANGED <<threads, tasks, stop, task, mainPc, enqueued, joined,
                   executed, removed>>
    /\ UNCHANGED <<cacheVars, cacheHist, poolVars, poolHist, ptrVars, ptrHist>>

\* worker: a blocked wait wakes without a notify (spurious wake-up)
WorkerSpuriousWake(w) ==
    /\ w \in Workers
    /\ workers[w] = "wait"
    /\ w \in condition
    /\ condition' = condition \ {w}
    /\ UNCHANGED <<threads, workers, tasks, queueMutex, stop, task, mainPc,
                   enqueued, joined, executed, removed>>
    /\ UNCHANGED <<cacheVars, cacheHist, poolVars, poolHist, ptrVars, ptrHist>>

\* worker: a woken wait takes the mutex again and tests its predicate again
WorkerRelock(w) ==
    /\ w \in Workers
    /\ workers[w] = "wait"
    /\ w \notin condition
    /\ queueMutex = Unlocked
    /\ queueMutex' = w
    /\ workers' = [workers EXCEPT ![w] = "check"]
    /\ UNCHANGED <<threads, tasks, condition, stop, task, mainPc, enqueued,
                   joined, executed, removed>>
    /\ UNCHANGED <<cacheVars, cacheHist, poolVars, poolHist, ptrVars, ptrHist>>

\* worker: if (stop && tasks.empty()) return; the lock is released
WorkerExit(w) ==
    /\ w \in Workers
    /\ workers[w] = "check"
    /\ WaitPredicate(stop, tasks)
    /\ ShouldExit(stop, tasks)
    /\ queueMutex' = Unlocked
    /\ workers' = [workers EXCEPT ![w] = "done"]
    /\ UNCHANGED <<threads, tasks, condition, stop, task, mainPc, enqueued,
                   joined, executed, removed>>
    /\ UNCHANGED <<cacheVars, cacheHist, poolVars, poolHist, ptrVars, ptrHist>>

\* worker: the front task is moved out and popped; the lock is released at
\* the end of the block
WorkerTake(w) ==
    /\ w \in Workers
    /\ workers[w] = "check"
    /\ WaitPredicate(stop, tasks)
    /\ ~ShouldExit(stop, tasks)
    /\ tasks # <<>>
    /\ \E r \in {TakeFront(tasks)} :
          /\ task' = [task EXCEPT ![w] = r.task]
          /\ tasks' = r.tasks
          /\ removed' = Append(removed, r.task)
    /\ queueMutex' = Unlocked
    /\ workers' = [workers EXCEPT ![w] = "run"]
    /\ UNCHANGED <<threads, condition, stop, mainPc, enqueued, joined,
                   executed>>
    /\ UNCHANGED <<cacheVars, cacheHist, poolVars, poolHist, ptrVars, ptrHist>>

\* worker: task(), then the next iteration of the loop
WorkerRun(w) ==
    /\ w \in Workers
    /\ workers[w] = "run"
    /\ executed' = [executed EXCEPT ![task[w]] = @ + 1]
    /\ task' = [task EXCEPT ![w] = NoTask]
    /\ workers' = [workers EXCEPT ![w] = "lock"]
    /\ UNCHANGED <<threads, tasks, queueMutex, condition, stop, mainPc,
                   enqueued, joined, removed>>
    /\ UNCHANGED <<cacheVars, cacheHist, poolVars, poolHist, ptrVars, ptrHist>>

\* owner: a call of enqueue begins
EnqueueCall ==
    /\ mainPc = "idle"
    /\ enqueued < MaxTasks
    /\ mainPc' = "enqueue"
    /\ UNCHANGED <<threads, workers, tasks, queueMutex, condition, stop, task,
                   enqueued, joined, executed, removed>>
    /\ UNCHANGED <<cacheVars, cacheHist, poolVars, poolHist, ptrVars, ptrHist>>

\* enqueue: std::unique_lock<std::mutex> lock(queueMutex)
EnqueueLock ==
    /\ mainPc = "enqueue"
    /\ queueMutex = Unlocked
    /\ queueMutex' = MainThread
    /\ mainPc' = "push"
    /\ UNCHANGED <<threads, workers, tasks, condition, stop, task, enqueued,
                   joined, executed, removed>>
    /\ UNCHANGED <<cacheVars, cacheHist, poolVars, poolHist, ptrVars, ptrHist>>

\* enqueue: tasks.push(std::move(task)); the lock is released at the end of
\* the block
EnqueuePush ==
    /\ mainPc = "push"
    /\ tasks' = Append(tasks, enqueued + 1)
    /\ enqueued' = enqueued + 1
    /\ queueMutex' = Unlocked
    /\ mainPc' = "notify_one"
    /\ UNCHANGED <<threads, workers, condition, stop, task, joined, executed,
                   removed>>
    /\ UNCHANGED <<cacheVars, cacheHist, poolVars, poolHist, ptrVars, ptrHist>>

\* enqueue: condition.notify_one() wakes one blocked worker, if there is one
EnqueueNotify ==
    /\ mainPc = "notify_one"
    /\ \/ condition = {} /\ condition' = condition
       \/ \E w \in condition : condition' = condition \ {w}
    /\ mainPc' = "idle"
    /\ UNCHANGED <<threads, workers, tasks, queueMutex, stop, task, enqueued,
                   joined, executed, removed>>
    /\ UNCHANGED <<cacheVars, cacheHist, poolVars, poolHist, ptrVars, ptrHist>>

\* owner: the destructor begins
DestroyCall ==
    /\ mainPc = "idle"
    /\ mainPc' = "destroy"
    /\ UNCHANGED <<threads, workers, tasks, queueMutex, condition, stop, task,
                   enqueued, joined, executed, removed>>
    /\ UNCHANGED <<cacheVars, cacheHist, poolVars, poolHist, ptrVars, ptrHist>>

\* ~ThreadPool: std::unique_lock<std::mutex> lock(queueMutex)
DestroyLock ==
    /\ mainPc = "destroy"
    /\ queueMutex = Unlocked
    /\ queueMutex' = MainThread
    /\ mainPc' = "stop"
    /\ UNCHANGED <<threads, workers, tasks, condition, stop, task, enqueued,
                   joined, executed, removed>>
    /\ UNCHANGED <<cacheVars, cacheHist, poolVars, poolHist, ptrVars, ptrHist>>

\* ~ThreadPool: stop = true; the lock is released at the end of the block
DestroyStop ==
    /\ mainPc = "stop"
    /\ stop' = TRUE
    /\ queueMutex' = Unlocked
    /\ mainPc' = "notify_all"
    /\ UNCHANGED <<threads, workers, tasks, condition, task, enqueued, joined,
                   executed, removed>>
    /\ UNCHANGED <<cacheVars, cacheHist, poolVars, poolHist, ptrVars, ptrHist>>

\* ~ThreadPool: condition.notify_all()
DestroyNotify ==
    /\ mainPc = "notify_all"
    /\ condition' = {}
    /\ mainPc' = IF threads = 0 THEN "end" ELSE "join"
    /\ UNCHANGED <<threads, workers, tasks, queueMutex, stop, task, enqueued,
                   joined, executed, removed>>
    /\ UNCHANGED <<cacheVars, cacheHist, poolVars, poolHist, ptrVars, ptrHist>>

\* ~ThreadPool: worker.join() returns for the next worker of the vector
DestroyJoin ==
    /\ mainPc = "join"
    /\ workers[joined + 1] = "done"
    /\ joined' = joined + 1
    /\ mainPc' = IF joined + 1 = threads THEN "end" ELSE "join"
    /\ UNCHANGED <<threads, workers, tasks, queueMutex, condition, stop, task,
                   enqueued, executed, removed>>
    /\ UNCHANGED <<cacheVars, cacheHist, poolVars, poolHist, ptrVars, ptrHist>>

\* every worker of the largest pool; a pool's own workers are Workers
AllWorkers == 1..MaxWorkers

ThreadNext ==
    \/ \E w \in AllWorkers : WorkerLock(w)
    \/ \E w \in AllWorkers : WorkerWait(w)
    \/ \E w \in AllWorkers : WorkerSpuriousWake(w)
    \/ \E w \in AllWorkers : WorkerRelock(w)
    \/ \E w \in AllWorkers : WorkerExit(w)
    \/ \E w \in AllWorkers : WorkerTake(w)
    \/ \E w \in AllWorkers : WorkerRun(w)
    \/ EnqueueCall
    \/ EnqueueLock
    \/ EnqueuePush
    \/ EnqueueNotify
    \/ DestroyCall
    \/ DestroyLock
    \/ DestroyStop
    \/ DestroyNotify
    \/ DestroyJoin

\* a freshly constructed cache of capacity 1, left alone
CacheIdle ==
    /\ capacity_ = 1
    /\ cache_list_ = <<>>
    /\ cache_map_ = EmptyMap
    /\ hits_ = 0
    /\ misses_ = 0
    /\ evictions_ = 0
    /\ touchOrder = <<>>
    /\ lastPut = [k \in AllKeys |-> NoVal]
    /\ lastC = [op |-> "new", key |-> NoKey, val |-> NoVal, ret |-> NoVal,
                found |-> FALSE, victim |-> NoKey]
    /\ scen = -1

\* the pool under its callers; the cache is left alone
InitPool == CacheIdle /\ PoolInit /\ PtrIdle /\ ThreadIdle

SpecPool == InitPool /\ [][PoolNext]_vars

\* the cache under its callers; the pool is left alone
InitCache == CacheInit /\ PoolIdle /\ PtrIdle /\ ThreadIdle

SpecCache == InitCache /\ [][CacheNext]_vars

\* the pointer cache under its callers; cache and pool are left alone
InitPtr == CacheIdle /\ PoolIdle /\ PtrInit /\ ThreadIdle

SpecPtr == InitPtr /\ [][PtrNext]_vars

\* the thread pool, its workers and its owner; the rest is left alone
InitThreads == CacheIdle /\ PoolIdle /\ PtrIdle /\ ThreadInit

SpecThreads == InitThreads /\ [][ThreadNext]_vars

\* what one worker does without waiting for the mutex
WorkerStep(w) ==
    WorkerWait(w) \/ WorkerExit(w) \/ WorkerTake(w) \/ WorkerRun(w)

\* what the owner does, once inside a call, without waiting for the mutex
OwnerStep ==
    EnqueuePush \/ EnqueueNotify \/ DestroyStop \/ DestroyNotify \/ DestroyJoin

\* Fair scheduling: a thread that can run does run, and a thread that asks
\* for the mutex again and again while it keeps being released gets it.
\* Calls of enqueue and of the destructor, and spurious wake-ups, need not
\* happen.
ThreadFairness ==
    /\ \A w \in AllWorkers : WF_vars(WorkerStep(w))
    /\ \A w \in AllWorkers : SF_vars(WorkerLock(w) \/ WorkerRelock(w))
    /\ WF_vars(OwnerStep)
    /\ SF_vars(EnqueueLock \/ DestroyLock)

SpecThreadsFair == InitThreads /\ [][ThreadNext]_vars /\ ThreadFairness

(* ======================= properties of LRUCache ======================== *)
\* the keys of a list, head first
KeySeq(list) == [i \in 1..Len(list) |-> list[i].key]

\* a list without the entry of key k
Without(list, k) == SelectSeq(list, LAMBDA e : e.key # k)

\* the value a list holds for key k (NoVal when it holds none)
Stored(list, k) ==
    IF \E i \in 1..Len(list) : list[i].key = k
    THEN (CHOOSE e \in {list[i] : i \in 1..Len(list)} : e.key = k).val
    ELSE NoVal

\* the resident key whose latest touch is the oldest
OldestTouched(list, order) ==
    LET r == SelectSeq(order, LAMBDA k : k \in ListKeys(list))
    IN IF r = <<>> THEN NoKey ELSE r[Len(r)]

\* C1: for every capacity >= 1 and every sequence of put, get, clear and
\* reset_stats, size() never exceeds the configured capacity.
C1_SizeWithinCapacity == Len(cache_list_) <= capacity_

\* a put of a new key into a full cache has just happened and the cache is
\* full again
C1_Witness ==
    /\ lastC.op = "put"
    /\ ~lastC.found
    /\ lastC.victim # NoKey
    /\ Len(cache_list_) = capacity_
    /\ capacity_ >= 2

\* C2, the step: a put of a key that is not resident, made when size equals
\* capacity, removes exactly one entry, namely the resident key whose latest
\* touch (successful get, or put) is the oldest, and adds one to evictions_.
C2_EvictStep ==
    (/\ lastC'.op = "put"
     /\ lastC'.key \notin ListKeys(cache_list_)
     /\ Len(cache_list_) = capacity_)
    => LET old == OldestTouched(cache_list_, touchOrder)
       IN /\ old \in ListKeys(cache_list_)
          /\ ListKeys(cache_list_') =
                 (ListKeys(cache_list_) \ {old}) \cup {lastC'.key}
          /\ Len(cache_list_') = Len(cache_list_)
          /\ Without(cache_list_', lastC'.key) = Without(cache_list_, old)
          /\ evictions_' = evictions_ + 1

\* C2, the scenario: in a capacity-3 cache, after put(1), put(2), put(3),
\* get(2), put(4) the victim is key 1 and keys 2, 3, 4 are resident; a get(1)
\* that follows is absent and a get(4) after it returns the value put for 4.
C2_Scenario ==
    /\ scen = 5 => /\ lastC.victim = 1
                   /\ ListKeys(cache_list_) = {2, 3, 4}
                   /\ evictions_ = 1
    /\ scen = 6 => lastC.ret = NoVal
    /\ scen = 7 => lastC.ret # NoVal /\ lastC.ret = lastPut[4]

\* C2: put of a new key at capacity evicts exactly the least recently touched
\* resident key and counts one eviction; in the capacity-3 scenario put(1),
\* put(2), put(3), get(2), put(4) evicts key 1, then get(1) is absent and
\* get(4) returns the value put for 4.
C2_EvictsLeastRecentlyTouched == [][C2_EvictStep]_vars /\ []C2_Scenario

\* the scenario has run to its end
C2_Witness ==
    /\ scen = 7
    /\ lastC.op = "get"
    /\ lastC.key = 4
    /\ 1 \notin ListKeys(cache_list_)

\* C8, the step: a get of a resident key returns the stored value, adds one
\* to hits_, moves the entry to the head, and keeps the order of the other
\* entries, the key set and the size.
C8_HitStep ==
    (/\ lastC'.op = "get"
     /\ lastC'.key \in ListKeys(cache_list_))
    => LET k == lastC'.key
       IN /\ lastC'.ret = Stored(cache_list_, k)
          /\ lastC'.ret # NoVal
          /\ hits_' = hits_ + 1
          /\ cache_list_'[1] = CacheItem(k, Stored(cache_list_, k))
          /\ Without(cache_list_', k) = Without(cache_list_, k)
          /\ ListKeys(cache_list_') = ListKeys(cache_list_)
          /\ Len(cache_list_') = Len(cache_list_)

\* C8, the order: the list holds the resident keys by their latest touch,
\* the latest at the head, so the tail, which is the next victim, is the
\* key touched longest ago and a key just touched is evicted last.
C8_RecencyOrder == KeySeq(cache_list_) = touchOrder

\* C8: get on a resident key returns its value, counts a hit and promotes the
\* entry to the head, leaving the other entries' order, the key set and the
\* size alone; the head is always the most recently touched entry and the
\* touched key is the last of the current residents to be evicted.
C8_GetHitPromotes == [][C8_HitStep]_vars /\ []C8_RecencyOrder

\* get(2) has just promoted key 2 from the middle of a full three-entry list
C8_Witness ==
    /\ scen = 4
    /\ lastC.op = "get"
    /\ lastC.found
    /\ KeySeq(cache_list_) = <<2, 3, 1>>
    /\ hits_ = 1

\* C9: get on an absent key returns absent, adds exactly one to misses_ and
\* changes nothing else: list, index, hits_ and evictions_ stay as they were.
C9_GetMissFrame ==
    [][(/\ lastC'.op = "get"
        /\ lastC'.key \notin ListKeys(cache_list_))
       => /\ lastC'.ret = NoVal
          /\ misses_' = misses_ + 1
          /\ UNCHANGED <<cache_list_, cache_map_, hits_, evictions_,
                         capacity_>>]_vars

\* a get has just missed on a non-empty cache
C9_Witness ==
    /\ lastC.op = "get"
    /\ ~lastC.found
    /\ lastC.ret = NoVal
    /\ misses_ >= 1
    /\ Len(cache_list_) >= 2

\* C10: put on a resident key replaces the value in place and promotes the
\* entry to the head; nothing is evicted and size, hits_, misses_ and
\* evictions_ are unchanged, also when the cache is at capacity.
C10_PutExistingUpdates ==
    [][(/\ lastC'.op = "put"
        /\ lastC'.key \in ListKeys(cache_list_))
       => LET k == lastC'.key
          IN /\ cache_list_'[1] = CacheItem(k, lastC'.val)
             /\ Without(cache_list_', k) = Without(cache_list_, k)
             /\ ListKeys(cache_list_') = ListKeys(cache_list_)
             /\ DOMAIN cache_map_' = DOMAIN cache_map_
             /\ Len(cache_list_') = Len(cache_list_)
             /\ lastC'.victim = NoKey
             /\ UNCHANGED <<hits_, misses_, evictions_>>]_vars

\* a put has just replaced the value of the tail entry of a full cache
C10_Witness ==
    /\ lastC.op = "put"
    /\ lastC.found
    /\ Len(cache_list_) = capacity_
    /\ capacity_ >= 2
    /\ cache_list_[1] = CacheItem(lastC.key, lastC.val)
    /\ evictions_ >= 1

\* C11: a get returns the value of the latest put of its key, provided the
\* key was put and has not since been evicted or removed by clear (lastPut
\* holds NoVal for a key that was never put or has left the cache since); a
\* get never returns any other value, and returns absent for such a key.
C11_GetReturnsLatestPut ==
    [][lastC'.op = "get" => lastC'.ret = lastPut[lastC'.key]]_vars

\* a get has just returned the value put for its key, which differs from the
\* value of the other resident key, after an eviction
C11_Witness ==
    /\ lastC.op = "get"
    /\ lastC.found
    /\ lastC.ret = lastPut[lastC.key]
    /\ lastC.ret # NoVal
    /\ Len(cache_list_) = 2
    /\ cache_list_[2].val # lastC.ret
    /\ evictions_ >= 1

\* C12: in every reachable state the index and the list describe the same
\* keys: every indexed key is held by the list node its iterator refers to,
\* every list entry's key is indexed, and no key is in the list twice.
C12_IndexMatchesList ==
    /\ DOMAIN cache_map_ = ListKeys(cache_list_)
    /\ \A k \in DOMAIN cache_map_ :
          /\ NodePos(cache_list_, cache_map_[k]) # 0
          /\ cache_list_[NodePos(cache_list_, cache_map_[k])].key = k
    /\ Cardinality(ListKeys(cache_list_)) = Len(cache_list_)

\* a get has just promoted the tail of a full two-entry cache that has
\* evicted before
C12_Witness ==
    /\ lastC.op = "get"
    /\ lastC.found
    /\ evictions_ >= 1
    /\ Len(cache_list_) = 2
    /\ capacity_ = 2
    /\ cache_map_[lastC.key] = cache_list_[1].key

\* C13: clear empties the list and the index and leaves hits_, misses_,
\* evictions_ and capacity_ unchanged; a get on the emptied cache misses and
\* leaves it empty, so every get misses until the next put.
C13_ClearEmpties ==
    [][/\ lastC'.op = "clear"
          => /\ cache_list_' = <<>>
             /\ cache_map_' = EmptyMap
             /\ Len(cache_list_') = 0
             /\ UNCHANGED <<hits_, misses_, evictions_, capacity_>>
       /\ (lastC'.op = "get" /\ cache_list_ = <<>>)
          => /\ ~lastC'.found
             /\ lastC'.ret = NoVal
             /\ cache_list_' = <<>>]_vars

\* a get has just missed on a cache that clear emptied after an eviction
C13_Witness ==
    /\ lastC.op = "get"
    /\ ~lastC.found
    /\ cache_list_ = <<>>
    /\ cache_map_ = EmptyMap
    /\ evictions_ >= 1
    /\ misses_ >= 1

\* C14: reset_stats sets hits_, misses_ and evictions_ to zero and leaves
\* the list (keys, values, order, size), the index and capacity_ unchanged;
\* no other operation lowers a counter.
C14_ResetStatsOnly ==
    [][/\ lastC'.op = "reset"
          => /\ hits_' = 0
             /\ misses_' = 0
             /\ evictions_' = 0
             /\ UNCHANGED <<cache_list_, cache_map_, capacity_>>
       /\ lastC'.op # "reset"
          => /\ hits_' >= hits_
             /\ misses_' >= misses_
             /\ evictions_' >= evictions_]_vars

\* reset_stats has just run on a full two-entry cache
C14_Witness ==
    /\ lastC.op = "reset"
    /\ Len(cache_list_) = 2
    /\ capacity_ = 2
    /\ hits_ = 0
    /\ misses_ = 0
    /\ evictions_ = 0

\* C15, the counters: a get of a resident key adds one to hits_ only, a get
\* of an absent key adds one to misses_ only, put and clear change neither.
C15_CountStep ==
    /\ (lastC'.op = "get" /\ lastC'.key \in ListKeys(cache_list_))
       => hits_' = hits_ + 1 /\ misses_' = misses_
    /\ (lastC'.op = "get" /\ lastC'.key \notin ListKeys(cache_list_))
       => hits_' = hits_ /\ misses_' = misses_ + 1
    /\ lastC'.op \in {"put", "clear"} => UNCHANGED <<hits_, misses_>>

\* C15, the rate: hit_rate() is 0 when hits_ + misses_ is 0, and otherwise
\* the quotient hits_ * 100 / (hits_ + misses_); with 3 hits and 1 miss it
\* is 75.
C15_Rate ==
    /\ hits_ + misses_ = 0 => HitRate.num = 0
    /\ hits_ + misses_ > 0
       => /\ HitRate.den > 0
          /\ HitRate.num * (hits_ + misses_) = hits_ * 100 * HitRate.den
    /\ (hits_ = 3 /\ misses_ = 1) => HitRate = [num |-> 75, den |-> 1]

\* C15: hit_rate() is 0 when no get has run since construction or the last
\* reset_stats and otherwise hits * 100 / (hits + misses), where hits and
\* misses count the successful and unsuccessful gets and puts count as
\* neither; after 3 hits and 1 miss it is 75.
C15_HitRate == [][C15_CountStep]_vars /\ []C15_Rate

\* three gets have hit and one has missed
C15_Witness ==
    /\ hits_ = 3
    /\ misses_ = 1
    /\ HitRate.num = 75

(* ====================== properties of MemoryPool ======================= *)
\* the block start addresses of the arena
BlockAddrs == {memory_start_ + i * block_size_ : i \in 0..(block_count_ - 1)}

\* the addresses met when following the links from p, for at most fuel
\* steps; the walk ends at nullptr, at a word that holds no link, or outside
\* the arena
RECURSIVE FreeWalk(_, _)
FreeWalk(p, fuel) ==
    IF p = Null \/ fuel = 0 THEN <<>>
    ELSE IF p \notin DOMAIN mem \/ mem[p] = Junk THEN <<p>>
    ELSE <<p>> \o FreeWalk(mem[p], fuel - 1)

\* the free list as a sequence of addresses, head first
FreeSeq == FreeWalk(free_list_, Cardinality(DOMAIN mem) + 1)

FreeSet == {FreeSeq[i] : i \in 1..Len(FreeSeq)}

\* following the links from p reaches nullptr through words of the arena that
\* hold links, within fuel steps; a walk caught in a cycle runs out of fuel
RECURSIVE EndsAtNull(_, _)
EndsAtNull(p, fuel) ==
    IF p = Null THEN TRUE
    ELSE IF fuel = 0 THEN FALSE
    ELSE /\ p \in DOMAIN mem
         /\ mem[p] # Junk
         /\ EndsAtNull(mem[p], fuel - 1)

\* the free list is a simple chain: it ends at nullptr and repeats no address
SimpleChain ==
    /\ EndsAtNull(free_list_, Cardinality(DOMAIN mem))
    /\ Cardinality(FreeSet) = Len(FreeSeq)

\* every deallocate so far was given nullptr, an address outside the arena
\* (both ignored by deallocate) or an address that was outstanding
NoBadFree == badFrees = 0

\* C3: while every deallocate is given an address that is outstanding
\* (arguments that deallocate ignores, nullptr and addresses outside the
\* arena, are allowed as well), the addresses on the free list and the
\* outstanding addresses are disjoint and together are exactly the block
\* addresses of the arena.
C3_FreeListPartition ==
    NoBadFree => /\ FreeSet \cap outstanding = {}
                 /\ FreeSet \cup outstanding = BlockAddrs

\* a block other than the first was just given back while another block is
\* still out
C3_Witness ==
    /\ NoBadFree
    /\ lastP.op = "deallocate"
    /\ lastP.arg \in BlockAddrs
    /\ free_list_ = lastP.arg
    /\ free_list_ # memory_start_
    /\ outstanding # {}
    /\ current_usage_ = 1

\* C4 as stated: after any sequence of allocate and deallocate calls
\* current_usage() never exceeds capacity().
C4_UsageWithinCapacity_AnyCalls == current_usage_ <= block_count_

\* C4, amended: after any sequence of allocate and deallocate calls in which
\* no deallocate is given an address inside the arena that is not
\* outstanding, current_usage() never exceeds capacity().
C4_UsageWithinCapacity == NoBadFree => current_usage_ <= block_count_

\* the pool filled up again after a block had been given back
C4_Witness ==
    /\ NoBadFree
    /\ current_usage_ = block_count_
    /\ block_count_ >= 1
    /\ deallocations_ >= 1
    /\ lastP.op = "allocate"
    /\ lastP.ret # Null

\* C5 as stated: in every reachable state the free list is a simple chain
\* without cycles whose length is block_count_ - current_usage_.
C5_FreeChain_AnyCalls ==
    /\ SimpleChain
    /\ Len(FreeSeq) = block_count_ - current_usage_

\* C5, amended: after construction and any sequence of allocate and
\* deallocate calls in which no deallocate is given an address inside the
\* arena that is not outstanding, the free list is a simple chain without
\* cycles whose length is block_count_ - current_usage_.
C5_FreeChain ==
    NoBadFree => /\ SimpleChain
                 /\ Len(FreeSeq) = block_count_ - current_usage_

\* a block was just pushed back onto the free list while the caller has
\* overwritten the link word of a block it still holds
C5_Witness ==
    /\ NoBadFree
    /\ lastP.op = "deallocate"
    /\ lastP.arg = free_list_
    /\ Len(FreeSeq) >= 1
    /\ current_usage_ >= 1
    /\ \E a \in DOMAIN mem : a \in outstanding /\ mem[a] = Junk

\* C6: allocate on a pool whose free list is empty returns nullptr and leaves
\* the free list, current_usage_, allocations_ and deallocations_ unchanged.
C6_ExhaustedAllocate ==
    [][(/\ lastP'.op = "allocate"
        /\ free_list_ = Null)
       => /\ lastP'.ret = Null
          /\ FreeSeq' = FreeSeq
          /\ UNCHANGED <<free_list_, mem, current_usage_, allocations_,
                         deallocations_, memory_start_, block_size_,
                         block_count_>>]_vars

\* allocate has just failed on a pool all of whose blocks are outstanding
C6_Witness ==
    /\ lastP.op = "allocate"
    /\ lastP.ret = Null
    /\ free_list_ = Null
    /\ NoBadFree
    /\ block_count_ >= 2
    /\ current_usage_ = block_count_
    /\ outstanding = BlockAddrs

\* C7: deallocate of nullptr, or of an address outside
\* [memory_start_, memory_start_ + block_size_ * block_count_), is a no-op:
\* free list (content and length), current_usage_ and the allocation and
\* deallocation counters are unchanged, and the address is not linked into
\* the free list.
C7_RejectedDeallocate ==
    [][(/\ lastP'.op = "deallocate"
        /\ \/ lastP'.arg = Null
           \/ lastP'.arg < memory_start_
           \/ lastP'.arg >= memory_start_ + block_size_ * block_count_)
       => /\ FreeSeq' = FreeSeq
          /\ free_list_' # lastP'.arg \/ free_list_ = lastP'.arg
          /\ UNCHANGED <<free_list_, mem, current_usage_, allocations_,
                         deallocations_, memory_start_, block_size_,
                         block_count_>>]_vars

\* deallocate was just given the first address past the arena, with blocks
\* both free and outstanding
C7_Witness ==
    /\ lastP.op = "deallocate"
    /\ lastP.arg = memory_start_ + block_size_ * block_count_
    /\ outstanding # {}
    /\ FreeSeq # <<>>
    /\ NoBadFree


\* C16: constructing a MemoryPool with block_count zero fails, so there is
\* no pool with block_count_ zero on which allocate or deallocate runs.
C16_ZeroBlockCountRejected ==
    ~(block_count_ = 0 /\ lastP.op \in {"allocate", "deallocate"})

\* C19: on a freshly constructed pool of n blocks the first n allocate calls,
\* with no deallocate in between, succeed and return the block addresses in
\* ascending order: call i (from 0) returns memory_start_ + i * block_size_,
\* each block once.
C19_AscendingFirstAllocations ==
    deallocations_ = 0
    => /\ allocations_ <= block_count_
       /\ outstanding = {memory_start_ + i * block_size_ :
                             i \in 0..(allocations_ - 1)}
       /\ lastP.op = "allocate"
          => IF lastP.ret = Null
             THEN allocations_ = block_count_
             ELSE lastP.ret = memory_start_ + (allocations_ - 1) * block_size_

\* the second allocate on a fresh pool of two two-word blocks has just
\* returned the second block
C19_Witness ==
    /\ deallocations_ = 0
    /\ block_count_ = 2
    /\ block_size_ = 2
    /\ allocations_ = 2
    /\ lastP.op = "allocate"
    /\ lastP.ret = memory_start_ + block_size_

(* ====================== properties of LRUCachePtr ====================== *)
\* the number of entries of a list that hold pointer p
Holding(list, p) == Cardinality({i \in 1..Len(list) : list[i].val = p})

\* C17, the step, for a cache constructed with a deleter.  The callback is
\* given the pointer read from the entry, so "before the new value is stored"
\* and "before the entry is removed" show in which pointer it is called on:
\* the superseded one, and the one of the tail as it was before the call.
C17_ReleaseStep ==
    deleter_ =>
    /\ (/\ lastL'.op = "put"
        /\ lastL'.key \in ListKeys(ptr_cache_list_))
       => /\ lastL'.calls = <<Stored(ptr_cache_list_, lastL'.key)>>
          /\ Stored(ptr_cache_list_', lastL'.key) = lastL'.val
          /\ Len(ptr_cache_list_') = Len(ptr_cache_list_)
    /\ (/\ lastL'.op = "put"
        /\ lastL'.key \notin ListKeys(ptr_cache_list_)
        /\ Len(ptr_cache_list_) >= ptr_capacity_)
       => /\ lastL'.calls = <<ptr_cache_list_[Len(ptr_cache_list_)].val>>
          /\ ptr_cache_list_[Len(ptr_cache_list_)].key
                 \notin ListKeys(ptr_cache_list_')
          /\ Len(ptr_cache_list_') = Len(ptr_cache_list_)
    /\ (/\ lastL'.op = "put"
        /\ lastL'.key \notin ListKeys(ptr_cache_list_)
        /\ Len(ptr_cache_list_) < ptr_capacity_)
       => lastL'.calls = <<>>
    /\ lastL'.op = "get" => lastL'.calls = <<>>
    /\ lastL'.op = "destroy"
       => /\ Len(lastL'.calls) = Len(ptr_cache_list_)
          /\ \A p \in Pointers :
                Count(lastL'.calls, p) = Holding(ptr_cache_list_, p)

\* C17: in an LRUCachePtr constructed with a deleter, put on an existing key
\* calls the deleter exactly once, on the superseded value; put of a new key
\* at capacity calls it exactly once, on the value of the tail entry, which
\* is then removed; destruction calls it exactly once for every resident
\* entry's value; get, and put of a new key under capacity, never call it.
C17_DeleterCalls == [][C17_ReleaseStep]_vars

\* a put of a new key has just evicted the tail of a full two-entry cache
\* and released its value, after an earlier release
C17_Witness ==
    /\ deleter_
    /\ alive
    /\ lastL.op = "put"
    /\ ~lastL.found
    /\ Len(lastL.calls) = 1
    /\ Len(ptr_cache_list_) = 2
    /\ TotalReleased(released) >= 2

(* ======================= properties of ThreadPool ====================== *)
\* C18, the exit: a worker returns from its loop only in a state where stop
\* is set and the queue is empty.
C18_ExitStep ==
    \A w \in Workers :
        (workers'[w] = "done" /\ workers[w] # "done")
        => (stop /\ tasks = <<>>)

\* the outcome: when the destructor has returned, every task that was
\* enqueued has been run, the queue is empty and every worker has exited
C18_Drained ==
    mainPc = "end"
    => /\ \A t \in 1..enqueued : executed[t] >= 1
       /\ tasks = <<>>
       /\ \A w \in Workers : workers[w] = "done"

\* every task that was enqueued is eventually run
C18_TasksRun ==
    \A t \in 1..MaxTasks : (enqueued >= t) ~> (executed[t] >= 1)

\* once the destructor has begun, eventually every worker has exited and
\* the joins have returned
C18_JoinsReturn ==
    (mainPc = "destroy")
    ~> (mainPc = "end" /\ \A w \in Workers : workers[w] = "done")

\* C18 as stated: a worker exits only when stop is set and the queue is
\* empty, and under fair scheduling every task enqueued before the
\* destructor starts is eventually run and every worker eventually exits so
\* that the destructor's joins return: the pool is drained when the
\* destructor returns.
C18_Drains_AnyThreads ==
    /\ [][C18_ExitStep]_vars
    /\ []C18_Drained
    /\ C18_TasksRun
    /\ C18_JoinsReturn

\* C18 for the pools that have a worker: the same, with the tasks of a pool
\* constructed with at least one worker.
C18_Drains ==
    /\ [][C18_ExitStep]_vars
    /\ [](threads >= 1 => C18_Drained)
    /\ \A t \in 1..MaxTasks :
          (threads >= 1 /\ enqueued >= t) ~> (executed[t] >= 1)
    /\ C18_JoinsReturn

\* the destructor of a pool of two workers has returned after both tasks
\* were run
C18_Witness ==
    /\ threads = 2
    /\ mainPc = "end"
    /\ enqueued = 2
    /\ \A t \in 1..2 : executed[t] = 1
    /\ \A w \in Workers : workers[w] = "done"

\* C20: under every interleaving, the tasks leave the queue in the order they
\* were pushed, each once, to one worker; no task is run more than once;
\* and a thread that reads or changes the queue holds queueMutex.
C20_EachTaskOnce ==
    /\ removed = [i \in 1..Len(removed) |-> i]
    /\ tasks = [i \in 1..(enqueued - Len(removed)) |-> Len(removed) + i]
    /\ \A t \in 1..MaxTasks :
          /\ executed[t] <= 1
          /\ executed[t] = 1 => t <= Len(removed)
    /\ \A w1, w2 \in Workers :
          (task[w1] # NoTask /\ task[w1] = task[w2]) => w1 = w2
    /\ \A w \in Workers :
          /\ workers[w] = "check" => queueMutex = w
          /\ workers[w] = "run" <=> task[w] # NoTask
    /\ mainPc \in {"push", "stop"} => queueMutex = MainThread

\* two workers hold one task each, the second worker the first task
C20_Witness ==
    /\ threads = 2
    /\ workers[1] = "run"
    /\ workers[2] = "run"
    /\ task[1] = 2
    /\ task[2] = 1
    /\ removed = <<1, 2>>

(* ================= properties of MemoryPool, continued ================= *)
\* the latest call was an allocate that returned an address, and the address
\* is the start of a block
AllocatedBlockStart ==
    (lastP.op = "allocate" /\ lastP.ret # Null) => lastP.ret \in BlockAddrs

\* C21 as stated: for any sequence of allocate calls and of deallocate calls
\* whose argument is any address that passes the range check, addresses
\* inside the arena that are no block start included, every non-null address
\* allocate returns is a block start memory_start_ + i * block_size_ with
\* 0 <= i < block_count_.
C21_ReturnsBlockStart_AnyCalls == AllocatedBlockStart

\* C21, amended: for any sequence of allocate calls and of deallocate calls
\* whose argument is nullptr, an address outside the arena or an address that
\* is outstanding, every non-null address allocate returns is a block start.
C21_ReturnsBlockStart == NoBadFree => AllocatedBlockStart

\* a block of two words was handed out again after it had been given back
C21_Witness ==
    /\ NoBadFree
    /\ lastP.op = "allocate"
    /\ lastP.ret = memory_start_
    /\ block_size_ = 2
    /\ deallocations_ = 1
    /\ allocations_ = 2

(* ================= properties of LRUCachePtr, continued ================ *)
\* the deleter ran at most once on every pointer, no pointer it ran on is
\* resident, and the latest get did not return a pointer it had run on
ReleasedOnce ==
    /\ \A p \in Pointers : released[p] <= 1
    /\ \A p \in Pointers :
          released[p] >= 1 => Holding(ptr_cache_list_, p) = 0
    /\ (lastL.op = "get" /\ lastL.ret # Null) => released[lastL.ret] = 0

\* every pointer was passed to put at most once
EachPointerPutOnce == \A p \in Pointers : putCount[p] <= 1

\* C22 as stated: for any sequence of put and get calls on an LRUCachePtr
\* with a deleter, followed by destruction, a put that stores under an
\* existing key the pointer already resident for it included, the deleter is
\* called at most once per pointer over the cache's lifetime, and no pointer
\* it was called on is resident or returned by a later get.
C22_ReleasedOnce_AnyPuts == deleter_ => ReleasedOnce

\* C22, amended: the same for the sequences in which every put stores a
\* pointer that no earlier put on this cache has stored.
C22_ReleasedOnce == (deleter_ /\ EachPointerPutOnce) => ReleasedOnce

\* a cache with a deleter was destroyed with one value resident after
\* another value had been released by a put, each pointer put once
C22_Witness ==
    /\ deleter_
    /\ EachPointerPutOnce
    /\ ~alive
    /\ lastL.op = "destroy"
    /\ Len(lastL.calls) = 1
    /\ released[1] = 1
    /\ released[2] = 1

====
